---------------------------- MODULE Spec2Model ----------------------------
(***************************************************************************)
(* Shader parameter linking and filling (src/render/shade.rs).             *)
(*                                                                         *)
(* A parameter source is linked once against a program's reflected         *)
(* interface (create_link), and the resulting Link is then used on every   *)
(* draw to append the source's current values to a parameter sink          *)
(* (fill_params).  Two sources exist: the no-parameter source () and the   *)
(* ParamDictionary of named cells.                                         *)
(***************************************************************************)
EXTENDS Integers, Sequences, FiniteSets

(* ------------------------------ bounds -------------------------------- *)
\* Largest number of cells of a dictionary, over its three categories.
MaxCells == 2
\* Largest number of names an interface requires, over its three categories.
MaxReq == 2
\* Largest number of values the caller lets a sink hold, over its three
\* sequences.
MaxSink == 2

\* The names cells and requirements are drawn from.
Names == {"a", "b"}
\* The values cells hold (a UniformValue, a buffer handle, a TextureParam:
\* opaque Copy data to this code).
Values == {1, 2}

VARIABLES
    dict,           \* the ParamDictionary: three sequences of NamedCell
    written,        \* per cell, the value most recently written to it
    info,           \* the ProgramInfo given to the latest create_link
    src,            \* the source given to it: [impl, some]
    res,            \* what the latest create_link returned (or its panic)
    sink,           \* the caller's ParamValues: three growable sequences
    last,           \* the latest operation: [op, panic]
    layoutChanged   \* a cell was inserted or removed since the latest link

vars == <<dict, written, info, src, res, sink, last, layoutChanged>>

(* ------------------------------ data ---------------------------------- *)
\* Option<T>: None, Some(x)
None == <<>>
Some(x) == <<x>>

\* Result<T, E>, and the unwinding of a panic out of the call
Ok(v) == [tag |-> "Ok", val |-> v]
Err(e) == [tag |-> "Err", val |-> e]
Panicked == [tag |-> "Panic", val |-> "unwrap"]
NoResult == [tag |-> "NoCall", val |-> "none"]

ParameterGeneralMismatch == [kind |-> "ParameterGeneralMismatch", name |-> ""]
MissingUniform(n) == [kind |-> "MissingUniform", name |-> n]
MissingBlock(n) == [kind |-> "MissingBlock", name |-> n]
MissingTexture(n) == [kind |-> "MissingTexture", name |-> n]

NamedCell == [name : Names, value : Values]

\* The length triples <<uniforms, blocks, textures>> of total at most n
Shapes(n) ==
    {s \in (0..n) \X (0..n) \X (0..n) : s[1] + s[2] + s[3] <= n}

\* The three-category records whose sequences have the lengths of a shape
\* of total at most n and hold elements of S
Triples(S, n) ==
    UNION {[uniforms : [1..s[1] -> S],
            blocks   : [1..s[2] -> S],
            textures : [1..s[3] -> S]] : s \in Shapes(n)}

ParamDictionary == Triples(NamedCell, MaxCells)
ProgramInfo == Triples(Names, MaxReq)

Total(t) == Len(t.uniforms) + Len(t.blocks) + Len(t.textures)

EmptyTriple == [uniforms |-> <<>>, blocks |-> <<>>, textures |-> <<>>]

Min(S) == CHOOSE x \in S : \A y \in S : x <= y


(* --------------------------- pure functions --------------------------- *)
\* A set that does not reach the cell (the value is written to a copy)
CellSet_Dropped(c, v) == c

\* Cell<T>::get and Cell<T>::set on a NamedCell's value
CellGet(c) == c.value
CellSet(c, v) == [c EXCEPT !.value = v]

\* A position that counts from one
Position_OneBased(cells, name) ==
    LET hits == {i \in 1..Len(cells) : cells[i].name = name}
    IN  IF hits = {} THEN None ELSE Some(Min(hits))

\* cells.iter().position(|c| c.name == name): the zero-based index of the
\* first cell with that name, as an Option
Position(cells, name) ==
    LET hits == {i \in 1..Len(cells) : cells[i].name = name}
    IN  IF hits = {} THEN None ELSE Some(Min(hits) - 1)

\* Lookups that take the first cell whose name differs (!= for ==)
Lookups_NotEqual(cells, req) ==
    [i \in 1..Len(req) |->
        LET hits == {j \in 1..Len(cells) : cells[j].name # req[i]}
        IN  IF hits = {} THEN None ELSE Some(Min(hits) - 1)]

\* vars.iter().map(|var| cells.iter().position(..)): the Option of every
\* requirement, before unwrap
Lookups(cells, req) == [i \in 1..Len(req) |-> Position(cells, req[i])]

\* .unwrap() of every element and .collect()
Unwrapped(opts) == [i \in 1..Len(opts) |-> opts[i][1]]
AnyNone(opts) == \E i \in 1..Len(opts) : opts[i] = None

\* A create_link of () that looks at the blocks before the uniforms
CreateLinkUnit_BlocksFirst(this, inf) ==
    IF Len(inf.blocks) > 0 THEN Err(MissingBlock(inf.blocks[1]))
    ELSE IF Len(inf.uniforms) > 0 THEN Err(MissingUniform(inf.uniforms[1]))
    ELSE IF Len(inf.textures) > 0 THEN Err(MissingTexture(inf.textures[1]))
    ELSE Ok("unit")

\* <() as ShaderParam>::create_link
CreateLinkUnit(this, inf) ==
    IF Len(inf.uniforms) > 0 THEN Err(MissingUniform(inf.uniforms[1]))
    ELSE IF Len(inf.blocks) > 0 THEN Err(MissingBlock(inf.blocks[1]))
    ELSE IF Len(inf.textures) > 0 THEN Err(MissingTexture(inf.textures[1]))
    ELSE Ok("unit")

\* A create_link that accepts None when the interface requires nothing
CreateLinkDict_NoneLinksEmpty(this, inf) ==
    IF this = None
    THEN IF Total(inf) = 0 THEN Ok(EmptyTriple) ELSE Err(ParameterGeneralMismatch)
    ELSE LET d == this[1]
             u == Lookups(d.uniforms, inf.uniforms)
             b == Lookups(d.blocks, inf.blocks)
             t == Lookups(d.textures, inf.textures)
         IN  IF AnyNone(u) \/ AnyNone(b) \/ AnyNone(t) THEN Panicked
             ELSE Ok([uniforms |-> Unwrapped(u),
                      blocks   |-> Unwrapped(b),
                      textures |-> Unwrapped(t)])

\* A create_link that treats None as the () source does
CreateLinkDict_NoneAsUnit(this, inf) ==
    IF this = None THEN CreateLinkUnit(None, inf)
    ELSE LET d == this[1]
             u == Lookups(d.uniforms, inf.uniforms)
             b == Lookups(d.blocks, inf.blocks)
             t == Lookups(d.textures, inf.textures)
         IN  IF AnyNone(u) \/ AnyNone(b) \/ AnyNone(t) THEN Panicked
             ELSE Ok([uniforms |-> Unwrapped(u),
                      blocks   |-> Unwrapped(b),
                      textures |-> Unwrapped(t)])

\* <ParamDictionary as ShaderParam>::create_link.  An unwrap() of None
\* panics; the three maps have no other effect, so which of them panics
\* first is not observable.
CreateLinkDict(this, inf) ==
    IF this = None THEN Err(ParameterGeneralMismatch)
    ELSE LET d == this[1]
             u == Lookups(d.uniforms, inf.uniforms)
             b == Lookups(d.blocks, inf.blocks)
             t == Lookups(d.textures, inf.textures)
         IN  IF AnyNone(u) \/ AnyNone(b) \/ AnyNone(t) THEN Panicked
             ELSE Ok([uniforms |-> Unwrapped(u),
                      blocks   |-> Unwrapped(b),
                      textures |-> Unwrapped(t)])

\* A loop that walks the cells, pushing those the Link names (dictionary
\* order)
FillLoop_DictOrder(cells, ids, out) ==
    LET bad == {i \in 1..Len(ids) : ids[i] >= Len(cells)}
        linked == {j \in 1..Len(cells) : \E i \in 1..Len(ids) : ids[i] + 1 = j}
        Walk[j \in 0..Len(cells)] ==
            IF j = 0 THEN <<>>
            ELSE IF j \in linked THEN Append(Walk[j - 1], CellGet(cells[j]))
            ELSE Walk[j - 1]
    IN  [ok |-> bad = {}, out |-> out \o Walk[Len(cells)]]

\* A loop that clears the sink sequence before pushing
FillLoop_Clears(cells, ids, out) ==
    LET bad == {i \in 1..Len(ids) : ids[i] >= Len(cells)}
        n == IF bad = {} THEN Len(ids) ELSE Min(bad) - 1
    IN  [ok  |-> bad = {},
         out |-> [i \in 1..n |-> CellGet(cells[ids[i] + 1])]]

\* One loop of fill_params: for &id in ids { out.push(cells[id].value.get()) }.
\* cells[id] with id >= cells.len() panics, after the pushes before it.
FillLoop(cells, ids, out) ==
    LET bad == {i \in 1..Len(ids) : ids[i] >= Len(cells)}
        n == IF bad = {} THEN Len(ids) ELSE Min(bad) - 1
    IN  [ok  |-> bad = {},
         out |-> out \o [i \in 1..n |-> CellGet(cells[ids[i] + 1])]]

\* <ParamDictionary as ShaderParam>::fill_params: the three loops in order;
\* a panic in one leaves the later sequences untouched.
FillParamsDict(self, link, params) ==
    LET u == FillLoop(self.uniforms, link.uniforms, params.uniforms)
        b == IF u.ok THEN FillLoop(self.blocks, link.blocks, params.blocks)
             ELSE [ok |-> FALSE, out |-> params.blocks]
        t == IF b.ok THEN FillLoop(self.textures, link.textures, params.textures)
             ELSE [ok |-> FALSE, out |-> params.textures]
    IN  [ok |-> t.ok,
         params |-> [uniforms |-> u.out, blocks |-> b.out, textures |-> t.out]]

\* <() as ShaderParam>::fill_params: empty body
FillParamsUnit(self, link, params) == [ok |-> TRUE, params |-> params]

(* ------------------------------ actions ------------------------------- *)
Categories == {"uniforms", "blocks", "textures"}

\* The values of a category's cells, cell by cell
ValuesOf(d) ==
    [c \in Categories |-> [i \in 1..Len(d[c]) |-> d[c][i].value]]

\* Vec::insert(i, x) and Vec::remove(i), i zero-based
VecInsert(v, i, x) == SubSeq(v, 1, i) \o <<x>> \o SubSeq(v, i + 1, Len(v))
VecRemove(v, i) == SubSeq(v, 1, i) \o SubSeq(v, i + 2, Len(v))

Running == ~last.panic

Init ==
    /\ dict \in ParamDictionary
    /\ written = ValuesOf(dict)
    /\ info = EmptyTriple
    /\ src = [impl |-> "none", some |-> FALSE]
    /\ res = NoResult
    /\ sink = EmptyTriple
    /\ last = [op |-> "new", impl |-> "none", panic |-> FALSE]
    /\ layoutChanged = FALSE

\* ParamDictionary::create_link(Some(&dict), &inf) or (None, &inf)
DictCreateLink ==
    /\ Running
    /\ \E some \in BOOLEAN, inf \in ProgramInfo :
          /\ res' = CreateLinkDict(IF some THEN Some(dict) ELSE None, inf)
          /\ info' = inf
          /\ src' = [impl |-> "dict", some |-> some]
    /\ last' = [op |-> "create_link", impl |-> "dict",
                panic |-> res'.tag = "Panic"]
    /\ layoutChanged' = FALSE
    /\ UNCHANGED <<dict, written, sink>>

\* <()>::create_link(Some(&()), &inf) or (None, &inf)
UnitCreateLink ==
    /\ Running
    /\ \E some \in BOOLEAN, inf \in ProgramInfo :
          /\ res' = CreateLinkUnit(IF some THEN Some("unit") ELSE None, inf)
          /\ info' = inf
          /\ src' = [impl |-> "unit", some |-> some]
    /\ last' = [op |-> "create_link", impl |-> "unit", panic |-> FALSE]
    /\ layoutChanged' = FALSE
    /\ UNCHANGED <<dict, written, sink>>

\* A fill_params that takes the value out of every cell it reads
\* (Cell::replace for Cell::get), leaving the lowest value behind
DictFill_Takes ==
    /\ Running
    /\ src.impl = "dict"
    /\ res.tag = "Ok"
    /\ Total(sink) + Total(res.val) <= MaxSink
    /\ LET r == FillParamsDict(dict, res.val, sink)
       IN  /\ sink' = r.params
           /\ last' = [op |-> "fill_params", impl |-> "dict", panic |-> ~r.ok]
    /\ dict' = [c \in Categories |->
                  [j \in 1..Len(dict[c]) |->
                      IF \E i \in 1..Len(res.val[c]) : res.val[c][i] + 1 = j
                      THEN CellSet(dict[c][j], 1) ELSE dict[c][j]]]
    /\ UNCHANGED <<written, info, src, res, layoutChanged>>

\* dict.fill_params(&link, sink) with the Link the latest create_link
\* returned; the caller keeps the sink within MaxSink values.
DictFill ==
    /\ Running
    /\ src.impl = "dict"
    /\ res.tag = "Ok"
    /\ Total(sink) + Total(res.val) <= MaxSink
    /\ LET r == FillParamsDict(dict, res.val, sink)
       IN  /\ sink' = r.params
           /\ last' = [op |-> "fill_params", impl |-> "dict", panic |-> ~r.ok]
    /\ UNCHANGED <<dict, written, info, src, res, layoutChanged>>

\* ().fill_params(&(), sink).  The Link of the () source is the value (),
\* which the caller has whether or not create_link was called, so () can be
\* filled into the sink at any time.
UnitFill ==
    /\ Running
    /\ LET r == FillParamsUnit("unit", "unit", sink)
       IN  /\ sink' = r.params
           /\ last' = [op |-> "fill_params", impl |-> "unit", panic |-> ~r.ok]
    /\ UNCHANGED <<dict, written, info, src, res, layoutChanged>>

\* Application code overwrites a cell: dict.<c>[i].value.set(v)
SetCell ==
    /\ Running
    /\ \E c \in Categories :
          \E i \in 1..Len(dict[c]), v \in Values :
             /\ dict' = [dict EXCEPT ![c][i] = CellSet(@, v)]
             /\ written' = [written EXCEPT ![c][i] = v]
    /\ last' = [op |-> "set", impl |-> "dict", panic |-> FALSE]
    /\ UNCHANGED <<info, src, res, sink, layoutChanged>>

\* Application code inserts a cell: dict.<c>.insert(i, cell)
InsertCell ==
    /\ Running
    /\ Total(dict) < MaxCells
    /\ \E c \in Categories :
          \E i \in 0..Len(dict[c]), cell \in NamedCell :
             /\ dict' = [dict EXCEPT ![c] = VecInsert(@, i, cell)]
             /\ written' = [written EXCEPT ![c] = VecInsert(@, i, cell.value)]
    /\ last' = [op |-> "insert", impl |-> "dict", panic |-> FALSE]
    /\ layoutChanged' = TRUE
    /\ UNCHANGED <<info, src, res, sink>>

\* Application code removes a cell: dict.<c>.remove(i)
RemoveCell ==
    /\ Running
    /\ \E c \in Categories :
          \E i \in 0..(Len(dict[c]) - 1) :
             /\ dict' = [dict EXCEPT ![c] = VecRemove(@, i)]
             /\ written' = [written EXCEPT ![c] = VecRemove(@, i)]
    /\ last' = [op |-> "remove", impl |-> "dict", panic |-> FALSE]
    /\ layoutChanged' = TRUE
    /\ UNCHANGED <<info, src, res, sink>>

\* One pairing of a source with a program: the source is linked once against
\* an interface; then cell values are overwritten and the sink is filled, in
\* any order.
LinkOnce == res.tag = "NoCall" /\ (DictCreateLink \/ UnitCreateLink)

Next ==
    \/ LinkOnce
    \/ DictFill
    \/ UnitFill
    \/ SetCell
Spec == Init /\ [][Next]_vars

\* The same pairing for a dictionary whose application code also changes the
\* cell layout, once, under a Link it keeps using.
ChangeLayout ==
    /\ res.tag = "Ok"
    /\ ~layoutChanged
    /\ (InsertCell \/ RemoveCell)

LinkDictOnce == res.tag = "NoCall" /\ DictCreateLink

NextLayout ==
    \/ LinkDictOnce
    \/ DictFill
    \/ SetCell
    \/ ChangeLayout
SpecLayout == Init /\ [][NextLayout]_vars

(* ------------------------- claims: create_link ------------------------ *)
SameResult(r, e) == r.tag = e.tag /\ r.val = e.val

\* The positions of req whose name no cell of cells has
Unmet(cells, req) ==
    {i \in 1..Len(req) : \A j \in 1..Len(cells) : cells[j].name # req[i]}

HasUnmet(d, inf) ==
    \E c \in Categories : Unmet(d[c], inf[c]) # {}

\* The error of the first unmet requirement: uniforms in order, then blocks,
\* then textures
FirstUnmet(d, inf) ==
    IF Unmet(d.uniforms, inf.uniforms) # {}
    THEN MissingUniform(inf.uniforms[Min(Unmet(d.uniforms, inf.uniforms))])
    ELSE IF Unmet(d.blocks, inf.blocks) # {}
    THEN MissingBlock(inf.blocks[Min(Unmet(d.blocks, inf.blocks))])
    ELSE MissingTexture(inf.textures[Min(Unmet(d.textures, inf.textures))])

\* The state a create_link on the dictionary source has just left
JustLinkedDict == last.op = "create_link" /\ src.impl = "dict"

\* C1: ParamDictionary::create_link(Some(dict), interface) never aborts: when
\* a required name has no cell of that name in the dictionary's sequence of
\* the same category, it returns the Missing* error of the first unmet
\* requirement (uniforms, then blocks, then textures).
C1_MissingNameIsReturned ==
    (JustLinkedDict /\ src.some /\ HasUnmet(dict, info))
        => (res.tag = "Err" /\ res.val = FirstUnmet(dict, info))

\* What the () source is to return for an interface
UnitExpected(inf) ==
    IF inf.uniforms # <<>> THEN Err(MissingUniform(Head(inf.uniforms)))
    ELSE IF inf.blocks # <<>> THEN Err(MissingBlock(Head(inf.blocks)))
    ELSE IF inf.textures # <<>> THEN Err(MissingTexture(Head(inf.textures)))
    ELSE Ok("unit")

\* C2: for the () source, create_link returns Ok iff the interface requires
\* nothing, for Some(()) and for None alike; otherwise MissingUniform of the
\* first required uniform if there is one, else MissingBlock of the first
\* required block if there is one, else MissingTexture of the first required
\* texture.
C2_UnitLinkResult ==
    src.impl = "unit"
        => /\ SameResult(res, UnitExpected(info))
           /\ res.tag = "Ok" <=> Total(info) = 0

C2_Witness ==
    /\ src.impl = "unit"
    /\ ~src.some
    /\ info.uniforms = <<>>
    /\ Len(info.blocks) > 0
    /\ Len(info.textures) > 0
    /\ res.tag = "Err"
    /\ res.val = MissingBlock(info.blocks[1])

\* C3 as stated: every implementation's create_link(None, interface) with an
\* interface that requires nothing returns Ok with an empty-equivalent Link.
C3_NoneEmptyInterfaceIsOk ==
    (src.impl \in {"dict", "unit"} /\ ~src.some /\ Total(info) = 0)
        => /\ res.tag = "Ok"
           /\ src.impl = "dict" => res.val = EmptyTriple

\* C3, amended: create_link(None, interface) with an interface that requires
\* nothing returns Ok(()) for the () source, and
\* Err(ParameterGeneralMismatch) for ParamDictionary.
C3_NoneEmptyInterface ==
    (~src.some /\ Total(info) = 0)
        => /\ src.impl = "unit" => SameResult(res, Ok("unit"))
           /\ src.impl = "dict" => SameResult(res, Err(ParameterGeneralMismatch))

C3_Witness ==
    /\ src.impl = "dict"
    /\ ~src.some
    /\ Total(info) = 0
    /\ res.tag = "Err"

\* C4: ParamDictionary::create_link(None, interface) with an interface that
\* requires at least one uniform, block or texture returns
\* Err(ParameterGeneralMismatch): never a Missing* error, never Ok.
C4_NoneWithRequirements ==
    (src.impl = "dict" /\ ~src.some /\ Total(info) >= 1)
        => SameResult(res, Err(ParameterGeneralMismatch))

C4_Witness ==
    /\ src.impl = "dict"
    /\ ~src.some
    /\ Len(info.textures) >= 1
    /\ Unmet(dict.textures, info.textures) # {}
    /\ res.tag = "Err"
    /\ res.val.kind = "ParameterGeneralMismatch"

(* ------------------------- claims: fill_params ------------------------ *)
IsPrefix(p, q) == Len(p) <= Len(q) /\ SubSeq(q, 1, Len(p)) = p
LastN(q, n) == SubSeq(q, Len(q) - n + 1, Len(q))

\* The latest create_link was the dictionary's and returned a Link
LinkedDict == src.impl = "dict" /\ res.tag = "Ok"

\* The step is a fill_params of the dictionary or of ()
FillStep == last'.op = "fill_params"
DictFillStep == FillStep /\ last'.impl = "dict"
JustFilledDict == last.op = "fill_params" /\ last.impl = "dict"

\* The value of the first cell of that name
FirstCellValue(cells, name) ==
    cells[Min({j \in 1..Len(cells) : cells[j].name = name})].value

\* The values of the names a category of the interface requires, in the
\* interface's order
InInterfaceOrder(c) ==
    [i \in 1..Len(info[c]) |-> FirstCellValue(dict[c], info[c][i])]

\* C5: sink order follows interface order: a fill_params with the Link of a
\* successful create_link(Some(dict), interface) appends to each sink
\* sequence, position by position, the current value of the first cell of
\* the category whose name is the interface's i-th required name.
C5_SinkFollowsInterfaceOrder ==
    [][(DictFillStep /\ ~layoutChanged)
          => \A c \in Categories : sink'[c] = sink[c] \o InInterfaceOrder(c)]_vars

C5_Witness ==
    /\ JustFilledDict
    /\ ~last.panic
    /\ dict.uniforms = <<[name |-> "a", value |-> 1], [name |-> "b", value |-> 2]>>
    /\ info.uniforms = <<"b", "a">>
    /\ sink.uniforms = <<2, 1>>

\* What a fill_params of that source adds to a sink sequence
Growth(impl, c) == IF impl = "dict" THEN Len(res.val[c]) ELSE 0

\* C6: sink append-only: a fill_params (of ParamDictionary and of ()) leaves
\* the entries each sink sequence had as a prefix of it, in the same order,
\* and grows the sequence by exactly the length of the Link's index sequence
\* of that category (by zero for the () source).
C6_SinkAppendOnly ==
    [][FillStep
          => \A c \in Categories :
                /\ IsPrefix(sink[c], sink'[c])
                /\ Len(sink'[c]) = Len(sink[c]) + Growth(last'.impl, c)]_vars

\* The dictionary was filled twice into the sink and then () was
C6_Witness ==
    /\ last.op = "fill_params"
    /\ last.impl = "unit"
    /\ LinkedDict
    /\ Len(res.val.blocks) = 1
    /\ Len(sink.blocks) = 2

\* C7: no staleness: for a Link created once, under any interleaving of cell
\* overwrites (no cell inserted or removed) and fill_params calls with that
\* Link, each fill_params appends the value most recently written to each
\* linked cell.
C7_FillReadsLatestWrite ==
    [][(DictFillStep /\ ~layoutChanged)
          => \A c \in Categories :
                sink'[c] = sink[c] \o [i \in 1..Len(res.val[c]) |->
                                          written[c][res.val[c][i] + 1]]]_vars

\* Two fills of one linked cell appended different values
C7_Witness ==
    /\ JustFilledDict
    /\ ~layoutChanged
    /\ Len(res.val.uniforms) = 1
    /\ Len(sink.uniforms) = 2
    /\ sink.uniforms[1] # sink.uniforms[2]

\* C8: fill_params leaves the Link and the source (every cell's name and
\* value, and the layout) unchanged; so two consecutive fill_params of the
\* same source with the same Link append identical values.
C8_FillLeavesLinkAndSource ==
    [][FillStep
          => /\ res' = res
             /\ dict' = dict
             /\ (last.op = "fill_params" /\ last.impl = last'.impl)
                   => \A c \in Categories :
                         LastN(sink'[c], Growth(last'.impl, c))
                            = LastN(sink[c], Growth(last'.impl, c))]_vars

C8_Witness ==
    /\ JustFilledDict
    /\ Len(res.val.textures) = 1
    /\ Len(sink.textures) = 2
    /\ sink.textures[1] = sink.textures[2]
    /\ dict.textures[res.val.textures[1] + 1].value = sink.textures[2]

(* ---------------------------- claims: Link ---------------------------- *)
\* C9: Link invariant: a Link that create_link(Some(dict), interface)
\* returned has, per category, as many indices as the interface has
\* requirements, and while the cell layout is unchanged every index is a
\* position of the dictionary's cell sequence and fill_params does not fail.
C9_LinkInvariant ==
    LinkedDict
        => \A c \in Categories :
              /\ Len(res.val[c]) = Len(info[c])
              /\ ~layoutChanged
                    => /\ \A i \in 1..Len(res.val[c]) :
                             res.val[c][i] >= 0 /\ res.val[c][i] < Len(dict[c])
                       /\ ~last.panic

C9_Witness ==
    /\ JustFilledDict
    /\ ~layoutChanged
    /\ ~last.panic
    /\ Total(res.val) = 2
    /\ Total(sink) = 2

\* The Link sends every required name to a cell of that name
LinkMapsNames ==
    \A c \in Categories :
       \A i \in 1..Len(res.val[c]) :
          /\ res.val[c][i] < Len(dict[c])
          /\ dict[c][res.val[c][i] + 1].name = info[c][i]

\* C10: a Link stays correct only while no cell is inserted or removed:
\* after operations that change only cell values it sends every required
\* name to a cell of that name; after an insertion or removal it may not.
C10_LinkValidUntilLayoutChange ==
    LinkedDict => (LinkMapsNames \/ layoutChanged)

\* After a layout change, fill_params with the old Link read a cell whose
\* name is not the required one
C10_Witness ==
    /\ LinkedDict
    /\ layoutChanged
    /\ JustFilledDict
    /\ ~last.panic
    /\ Total(sink) > 0
    /\ ~LinkMapsNames

\* After a layout change, fill_params with the old Link indexed past the end
\* of the cell sequence
C10_StaleLinkPastEnd ==
    /\ LinkedDict
    /\ layoutChanged
    /\ JustFilledDict
    /\ last.panic

===========================================================================
